---------------------------- MODULE Spec2Model ----------------------------
(***************************************************************************)
(* Model of the weekly prediction service: the GET /predict/week handler   *)
(* (app/main.py), PredictionService.predict_weekly and its feature         *)
(* construction (app/services/prediction_service.py), the retrying         *)
(* DataFetcher (app/services/data_fetcher.py) and degree_to_direction      *)
(* (app/services/utils.py).                                                *)
(*                                                                         *)
(* Number representation.  Python floats are modelled in fixed point:      *)
(*   temperatures, precipitation, wind speeds and lunar ages in tenths,    *)
(*   degrees handed to degree_to_direction in hundredths of a degree,      *)
(*   sines and cosines in thousandths.                                     *)
(* A date is its day-of-year ordinal in the year Year; an hourly           *)
(* timestamp is date * 24 + hour.  NaN and None are the two integer        *)
(* sentinels NaN and None, which no modelled quantity takes as a value.    *)
(***************************************************************************)
EXTENDS Integers, Sequences, FiniteSets, TLC

VARIABLES
    \* ---- utils.degree_to_direction exercised on its own -----------------
    degree,             \* the argument, hundredths of a degree, or NaN
    direction,          \* the label returned, "?" before the call
    \* ---- PredictionService / DataFetcher / request handler --------------
    features_list,      \* self.features_list, loaded by __init__
    pc,                 \* position of the request's coroutine
    today,              \* date.today() read by predict_weekly
    attempt,            \* loop variable of the running fetch (0-based)
    delay,              \* local `delay` of the running fetch
    sleeps,             \* the asyncio.sleep arguments of the running fetch, in order
    outcome,            \* how the fetch ended, "pending" while it runs
    weather_api_data,   \* result of get_weather_data
    moon_age,           \* result of get_moon_age for the current date
    i,                  \* loop variable of predict_weekly's per-date loop
    all_days_features,  \* list of feature records built so far
    feature_df,         \* table after assembly, ffill and bfill
    engineered_df,      \* table after _engineer_features
    predictions,        \* list of PredictionResponse
    http_status,        \* status of the HTTP answer, 0 while none was sent
    \* ---- history (observation only, never read by the program) ----------
    fetchLog,           \* the fetches started, in order: "weather" or a date
    fetchesDone,        \* number of fetches that have returned
    builderCalls,       \* dates handed to create_features_for_day, in order
    tideFailures,       \* number of get_moon_age calls that returned None
    attemptLog,         \* how each attempt of the running fetch ended, in order
    engineerCalls       \* number of calls of _engineer_features

dirVars  == <<degree, direction>>
histVars == <<fetchLog, fetchesDone, builderCalls, tideFailures, attemptLog,
             engineerCalls>>
fetchVars == <<attempt, delay, sleeps, outcome>>
pipeVars == <<features_list, pc, today, attempt, delay, sleeps, outcome,
              weather_api_data, moon_age, i, all_days_features, feature_df,
              engineered_df, predictions, http_status,
              fetchLog, fetchesDone, builderCalls, tideFailures, attemptLog,
              engineerCalls>>
vars == <<degree, direction, features_list, pc, today, attempt, delay, sleeps,
          outcome, weather_api_data, moon_age, i, all_days_features, feature_df,
          engineered_df, predictions, http_status,
          fetchLog, fetchesDone, builderCalls, tideFailures, attemptLog,
          engineerCalls>>

-----------------------------------------------------------------------------
(* Bounds of the model *)

\* the weather responses differ in their hourly values by a seed 1..MaxSeed
MaxSeed == 1
\* the date date.today() returns (29 April)
FirstToday == 119
\* Within one request the tide fetches either fail at most MaxMinority times
\* or succeed at most MaxMinority times: every run in which all succeed, all
\* fail, or the rarer of the two results occurs up to MaxMinority times.
MaxMinority == 1

-----------------------------------------------------------------------------
(* Sentinels and generic helpers *)

NaN  == -999999
None == -888888

RECURSIVE SumSeq(_)
SumSeq(s) == IF s = <<>> THEN 0 ELSE Head(s) + SumSeq(Tail(s))

RECURSIVE MaxSeq(_)
MaxSeq(s) == IF Len(s) = 1 THEN s[1]
             ELSE LET m == MaxSeq(Tail(s)) IN IF s[1] >= m THEN s[1] ELSE m

RECURSIVE MinSeq(_)
MinSeq(s) == IF Len(s) = 1 THEN s[1]
             ELSE LET m == MinSeq(Tail(s)) IN IF s[1] <= m THEN s[1] ELSE m

\* x / y rounded to the nearest integer, halves to the even neighbour
\* (numpy.round), for x >= 0 and y > 0
RoundDiv(x, y) ==
    LET q == x \div y
        r == x % y
    IN  IF 2 * r < y THEN q
        ELSE IF 2 * r > y THEN q + 1
        ELSE IF q % 2 = 0 THEN q ELSE q + 1

\* integer square root, rounded down
RECURSIVE IsqrtFrom(_, _)
IsqrtFrom(n, r) == IF (r + 1) * (r + 1) > n THEN r ELSE IsqrtFrom(n, r + 1)

Isqrt(n) == IsqrtFrom(n, 0)

\* A function over 1..n as an explicit tuple, and a function over column
\* names as an explicit record: the same values, evaluated once.
AsTuple(s) == SubSeq(s, 1, Len(s))
AsRecord(f) == f @@ <<>>

Column(s, f) == AsTuple([k \in 1..Len(s) |-> s[k][f]])

-----------------------------------------------------------------------------
(* app/services/utils.py *)

\* The 16 compass points, clockwise from north.  The source spells them in
\* Japanese (kita, hokuhokuto, ...); the model uses the usual abbreviations.
DIRECTIONS ==
    << "N", "NNE", "NE", "ENE", "E", "ESE", "SE", "SSE",
       "S", "SSW", "SW", "WSW", "W", "WNW", "NW", "NNW" >>

\* mutation: the + 0.5 of the sector rounding is dropped
degree_to_direction_floor(d) ==
    IF d = NaN THEN "" ELSE DIRECTIONS[(((2 * d) \div 4500) % 16) + 1]

\* d is in hundredths of a degree: d/22.5 + 0.5 = (2d + 2250) / 4500, and
\* int() truncates, which is the floor for d >= 0.
degree_to_direction(d) ==
    IF d = NaN THEN ""
    ELSE LET val == (2 * d + 2250) \div 4500
         IN  DIRECTIONS[(val % 16) + 1]

\* the docstring's range of the argument, 0-360 degrees
MaxDegree == 360

-----------------------------------------------------------------------------
(* Calendar: datetime.date / pandas.Timestamp, restricted to the year Year *)

Year == 2025

\* days before the first of each month of Year
DaysBeforeMonth == << 0, 31, 59, 90, 120, 151, 181, 212, 243, 273, 304, 334 >>

MonthOf(d) ==
    CHOOSE m \in 1..12 :
        /\ DaysBeforeMonth[m] < d
        /\ (m = 12 \/ d <= DaysBeforeMonth[m + 1])

DayOf(d) == d - DaysBeforeMonth[MonthOf(d)]

\* date.weekday(): Monday is 0.  1 January of Year is a Wednesday.
Weekday(d) == (d + 1) % 7

\* date.isocalendar().week, for the dates of Year outside its first and last week
IsoWeek(d) == (d - (Weekday(d) + 1) + 10) \div 7

\* holidays.country_holidays("JP"), the public holidays of spring Year:
\* 20 March, 29 April, 3-6 May
jp_holidays == {79, 119, 123, 124, 125, 126}

\* timestamps: hours since the start of Year's day 0
TimeOf(d, h) == d * 24 + h
DateOfTime(t) == t \div 24
HourOfTime(t) == t % 24

-----------------------------------------------------------------------------
(* The external APIs' answers.  A weather response is named by a descriptor *)
(* and expanded to its hourly and daily arrays by HourlyArrays and          *)
(* DailyArrays; the values are fixed patterns of the timestamp and a seed.  *)

NoResponse == [kind |-> "none", seed |-> 0, start |-> 0, end |-> 0]

\* the answers the weather API may give for the window [start, end]
WeatherResponses(start, end) ==
    { [kind |-> "full", seed |-> s, start |-> start, end |-> end] : s \in 1..MaxSeed }
    \cup
    { [kind |-> k, seed |-> 1, start |-> start, end |-> end] : k \in {"late", "nodaily"} }

\* the timestamps of the hourly arrays:
\*   full, nodaily: every hour of every date of the window;
\*   late: the first 14 hours are missing
HasHour(resp, t) ==
    /\ t >= TimeOf(resp.start, 0)
    /\ t <= TimeOf(resp.end, 23)
    /\ (resp.kind = "late" => t >= TimeOf(resp.start, 14))

HourlyTimes(resp) ==
    LET all == [k \in 1..((resp.end - resp.start + 1) * 24) |->
                    TimeOf(resp.start, 0) + k - 1]
        Present(t) == HasHour(resp, t)
    IN  SelectSeq(all, Present)

\* WeatherApiResponse.hourly: one record per timestamp
HourlyArrays(resp) ==
    LET ts == HourlyTimes(resp)
        s  == resp.seed
    IN  AsTuple([k \in 1..Len(ts) |->
            LET t == ts[k] IN
            [ time               |-> t,
              temperature_2m     |-> 50 + ((t * (s + 2)) % 17) * 5,
              precipitation      |-> IF (t + s) % 5 = 0 THEN (t % 4) * 5 ELSE 0,
              wind_speed_10m     |-> 20 + ((t * 3 + s) % 23) * 7,
              wind_direction_10m |-> (t * 37 + s * 11) % 361 ]])

\* WeatherApiResponse.daily: one record per date; "nodaily" lacks date start+5
DailyDates(resp) ==
    LET all == [k \in 1..(resp.end - resp.start + 1) |-> resp.start + k - 1]
        Present(d) == ~ (resp.kind = "nodaily" /\ d = resp.start + 5)
    IN  SelectSeq(all, Present)

DailyArrays(resp) ==
    LET ds == DailyDates(resp)
        s  == resp.seed
    IN  AsTuple([k \in 1..Len(ds) |->
            LET d == ds[k] IN
            [ time                          |-> d,
              weather_code                  |-> (d * 7 + s) % 100,
              temperature_2m_max            |-> 150 + ((d * 3 + s) % 40),
              temperature_2m_min            |-> 20 + ((d * 5 + s) % 40),
              precipitation_probability_max |-> (d * 13 + s) % 101,
              wind_direction_10m_dominant   |-> (d * 47 + s) % 361 ]])

\* the moon age (tenths of a day) the tide API reports for a date
TideAge(d) == (d * 10) % 295

-----------------------------------------------------------------------------
(* app/services/prediction_service.py: module-level helpers *)

DIRECTION_MAP ==
    [ N |-> 0, NNE |-> 1, NE |-> 2, ENE |-> 3, E |-> 4, ESE |-> 5, SE |-> 6,
      SSE |-> 7, S |-> 8, SSW |-> 9, SW |-> 10, WSW |-> 11, W |-> 12,
      WNW |-> 13, NW |-> 14, NNW |-> 15 ]

\* 1000 * sin(2 pi k / 16), k = 0..15
SinSixteenth ==
    << 0, 383, 707, 924, 1000, 924, 707, 383, 0, -383, -707, -924, -1000,
       -924, -707, -383 >>

SinOfIndex(k) == SinSixteenth[(k % 16) + 1]
CosOfIndex(k) == SinSixteenth[((k + 4) % 16) + 1]

\* The angle 2 pi idx / 16 is represented by idx, its count of sixteenths of
\* a turn; NaN for a label outside DIRECTION_MAP.
direction_to_radian(d) ==
    IF d \in DOMAIN DIRECTION_MAP THEN DIRECTION_MAP[d] ELSE NaN

\* Circular mean.  The sector nearest to the mean vector (sum of sines, sum
\* of cosines) is the one whose unit vector has the largest projection on
\* it, which is what round(atan2(..) * 16 / 2 pi) % 16 selects; atan2(0, 0)
\* is 0.  Exact ties, which the source settles by floating-point rounding,
\* go to the smallest index.
mean_wind_direction(directions) ==
    LET Known(d) == d \in DOMAIN DIRECTION_MAP
        kept    == SelectSeq(directions, Known)
        radians == [k \in 1..Len(kept) |-> direction_to_radian(kept[k])]
        sin_sum == SumSeq([k \in 1..Len(radians) |-> SinOfIndex(radians[k])])
        cos_sum == SumSeq([k \in 1..Len(radians) |-> CosOfIndex(radians[k])])
        Proj(k) == cos_sum * CosOfIndex(k) + sin_sum * SinOfIndex(k)
    IN  IF Len(radians) = 0 THEN NaN
        ELSE IF sin_sum = 0 /\ cos_sum = 0 THEN 0
        ELSE CHOOSE k \in 0..15 :
                /\ \A j \in 0..15 : Proj(j) <= Proj(k)
                /\ \A j \in 0..(k - 1) : Proj(j) < Proj(k)

-----------------------------------------------------------------------------
(* pandas aggregates over a column (a sequence of numbers) *)

dropna(s) == LET NotNa(x) == x # NaN IN SelectSeq(s, NotNa)

\* Series.mean(): NaN over no sample; rounded to the model's unit
Mean(s) ==
    LET v == dropna(s)
    IN  IF Len(v) = 0 THEN NaN ELSE RoundDiv(SumSeq(v), Len(v))

\* Series.max() / Series.min(): NaN over no sample
Max(s) == LET v == dropna(s) IN IF Len(v) = 0 THEN NaN ELSE MaxSeq(v)
Min(s) == LET v == dropna(s) IN IF Len(v) = 0 THEN NaN ELSE MinSeq(v)

\* Series.sum(): 0 over no sample
Sum(s) == SumSeq(dropna(s))

\* Series.std(), ddof = 1: NaN over fewer than two samples
Std(s) ==
    LET v  == dropna(s)
        n  == Len(v)
        s1 == SumSeq(v)
        s2 == SumSeq([k \in 1..n |-> v[k] * v[k]])
    IN  IF n < 2 THEN NaN
        ELSE Isqrt((n * s2 - s1 * s1) \div (n * (n - 1)))

-----------------------------------------------------------------------------
(* PredictionService.predict_weekly: the frames built from the response *)

\* hourly_df: the hourly arrays with the two derived columns.
\* wind_speed_ms = round(km/h * 1000 / 3600, 1): in tenths, tenths-of-km/h * 5 / 18.
hourly_df(resp) ==
    LET h == HourlyArrays(resp)
    IN  AsTuple([k \in 1..Len(h) |->
            [ time               |-> h[k].time,
              temperature_2m     |-> h[k].temperature_2m,
              precipitation      |-> h[k].precipitation,
              wind_speed_10m     |-> h[k].wind_speed_10m,
              wind_direction_10m |-> h[k].wind_direction_10m,
              wind_speed_ms      |-> RoundDiv(h[k].wind_speed_10m * 5, 18),
              wind_direction_str |-> degree_to_direction(h[k].wind_direction_10m * 100) ]])

\* daily_df: the daily arrays, `time` as a date
daily_df(resp) == DailyArrays(resp)

-----------------------------------------------------------------------------
(* PredictionService.create_features_for_day: the windows *)

\* [target_date 10:00, target_date + 1 04:00], both ends included
temp_precip_weather(df, target_date) ==
    LET tp_start == TimeOf(target_date, 10)
        tp_end   == TimeOf(target_date + 1, 4)
        In(r)    == r.time >= tp_start /\ r.time <= tp_end
    IN  SelectSeq(df, In)

\* [target_date 20:00, target_date + 1 04:00], both ends included
wind_weather(df, target_date) ==
    LET wind_start == TimeOf(target_date, 20)
        wind_end   == TimeOf(target_date + 1, 4)
        In(r)      == r.time >= wind_start /\ r.time <= wind_end
    IN  SelectSeq(df, In)

\* rows of date `d` whose hour is between lo and hi, both included
OnDateBetween(df, d, lo, hi) ==
    LET In(r) == /\ DateOfTime(r.time) = d
                 /\ HourOfTime(r.time) >= lo
                 /\ HourOfTime(r.time) <= hi
    IN  SelectSeq(df, In)

tp_10_13(df, target_date) == OnDateBetween(df, target_date, 10, 13)
tp_14_17(df, target_date) == OnDateBetween(df, target_date, 14, 17)
tp_18_21(df, target_date) == OnDateBetween(df, target_date, 18, 21)

\* mutation: the second date test of the wrap window is lost, so that
\* midnight of every date is taken
tp_22_00_anyMidnight(df, target_date) ==
    LET In(r) == \/ (DateOfTime(r.time) = target_date /\ HourOfTime(r.time) >= 22)
                 \/ HourOfTime(r.time) = 0
    IN  SelectSeq(df, In)

\* (date == D) & (hour >= 22) | (date == D + 1) & (hour == 0): Python's & binds
\* tighter than |
tp_22_00(df, target_date) ==
    LET In(r) == \/ (DateOfTime(r.time) = target_date /\ HourOfTime(r.time) >= 22)
                 \/ (DateOfTime(r.time) = target_date + 1 /\ HourOfTime(r.time) = 0)
    IN  SelectSeq(df, In)

tp_01_04(df, target_date) == OnDateBetween(df, target_date + 1, 1, 4)

-----------------------------------------------------------------------------
(* PredictionService.create_features_for_day: the record *)

\* the dict `row` as it stands before line 118's fillna
RawFeatures(target_date, full_hourly_df, moon) ==
    LET tpw   == temp_precip_weather(full_hourly_df, target_date)
        ww    == wind_weather(full_hourly_df, target_date)
        w1013 == tp_10_13(full_hourly_df, target_date)
        w1417 == tp_14_17(full_hourly_df, target_date)
        w1821 == tp_18_21(full_hourly_df, target_date)
        w2200 == tp_22_00(full_hourly_df, target_date)
        w0104 == tp_01_04(full_hourly_df, target_date)
        temps == dropna(Column(tpw, "temperature_2m"))
        precs == dropna(Column(tpw, "precipitation"))
        winds == dropna(Column(ww, "wind_speed_ms"))
        wind_dirs == Column(ww, "wind_direction_str")
        psum  == Sum(precs)
    IN  [ date          |-> target_date,
          year          |-> Year,
          month         |-> MonthOf(target_date),
          day           |-> DayOf(target_date),
          weekday       |-> Weekday(target_date),
          week_of_year  |-> IsoWeek(target_date),
          week_of_month |-> ((DayOf(target_date) - 1) \div 7) + 1,
          day_of_year   |-> target_date,
          is_weekend    |-> IF Weekday(target_date) \in {5, 6} THEN 1 ELSE 0,
          is_holiday    |-> IF target_date \in jp_holidays THEN 1 ELSE 0,
          moon_age      |-> moon,
          temperature_mean |-> Mean(temps),
          temperature_max  |-> Max(temps),
          temperature_min  |-> Min(temps),
          temperature_std  |-> Std(temps),
          temperature_mean_10_13 |-> Mean(Column(w1013, "temperature_2m")),
          temperature_mean_14_17 |-> Mean(Column(w1417, "temperature_2m")),
          temperature_mean_18_21 |-> Mean(Column(w1821, "temperature_2m")),
          temperature_mean_22_0  |-> Mean(Column(w2200, "temperature_2m")),
          temperature_mean_1_4   |-> Mean(Column(w0104, "temperature_2m")),
          precipitation_sum    |-> psum,
          precipitation_binary |-> IF psum > 0 THEN 1 ELSE 0,
          precipitation_sum_10_13 |-> Sum(Column(w1013, "precipitation")),
          precipitation_sum_14_17 |-> Sum(Column(w1417, "precipitation")),
          precipitation_sum_18_21 |-> Sum(Column(w1821, "precipitation")),
          precipitation_sum_22_0  |-> Sum(Column(w2200, "precipitation")),
          precipitation_sum_1_4   |-> Sum(Column(w0104, "precipitation")),
          wind_speed_mean |-> Mean(winds),
          wind_speed_max  |-> Max(winds),
          wind_speed_min  |-> Min(winds),
          wind_speed_std  |-> Std(winds),
          wind_direction_mean |-> mean_wind_direction(wind_dirs) ]

\* Series.fillna(0)
fillna0(row) == AsRecord([c \in DOMAIN row |-> IF row[c] = NaN THEN 0 ELSE row[c]])

\* the value returned: pd.Series(row).fillna(0)
create_features_for_day(target_date, full_hourly_df, moon) ==
    fillna0(RawFeatures(target_date, full_hourly_df, moon))

-----------------------------------------------------------------------------
(* DataFrame.ffill / DataFrame.bfill / Series.shift on a table, which is a *)
(* sequence of rows over the same columns                                   *)

RECURSIVE LastValid(_, _, _)
\* the value of column c at the last row <= k that is not NaN; NaN if none
LastValid(df, c, k) ==
    IF k < 1 THEN NaN
    ELSE IF df[k][c] # NaN THEN df[k][c]
    ELSE LastValid(df, c, k - 1)

RECURSIVE NextValid(_, _, _)
\* the value of column c at the first row >= k that is not NaN; NaN if none
NextValid(df, c, k) ==
    IF k > Len(df) THEN NaN
    ELSE IF df[k][c] # NaN THEN df[k][c]
    ELSE NextValid(df, c, k + 1)

ffill(df) ==
    AsTuple([k \in 1..Len(df) |-> AsRecord([c \in DOMAIN df[k] |-> LastValid(df, c, k)])])
bfill(df) ==
    AsTuple([k \in 1..Len(df) |-> AsRecord([c \in DOMAIN df[k] |-> NextValid(df, c, k)])])

\* mutation: the period of the shift is ignored, every shift is by one row
shift_by_one(df, c, n) ==
    AsTuple([k \in 1..Len(df) |-> IF k - 1 >= 1 THEN df[k - 1][c] ELSE NaN])

\* df[c].shift(n): row k holds the value of row k - n, NaN for the first n rows
shift(df, c, n) ==
    AsTuple([k \in 1..Len(df) |-> IF k - n >= 1 THEN df[k - n][c] ELSE NaN])

-----------------------------------------------------------------------------
(* PredictionService._engineer_features *)

\* 1000 * sin(2 pi num / den), by Bhaskara's rational approximation of the
\* sine (error below 3 thousandths); num >= 0, den > 0
SinMilli(num, den) ==
    LET n   == num % den
        neg == 2 * n > den
        a   == IF neg THEN 2 * n - den ELSE 2 * n
        x   == (a * 10000) \div den
        y   == (x * (10000 - x)) \div 10000
        v   == (16000 * y) \div (50000 - 4 * y)
    IN  IF neg THEN -v ELSE v

\* cos(t) = sin(t + pi / 2)
CosMilli(num, den) == SinMilli(4 * num + den, 4 * den)

\* self.le.classes_: the sorted labels the encoder was fitted on (a trained
\* artifact; here an encoder that has not seen every sector)
le_classes == << 0, 1, 2, 4, 6, 8, 10, 12, 13, 14 >>

known_labels == { le_classes[k] : k \in 1..Len(le_classes) }

\* pd.Series(self.le.classes_).mode()[0]: the classes are distinct, so every
\* one is a mode and the first of the sorted modes is the smallest class
le_mode == le_classes[1]

\* self.le.transform: the 0-based position of the label among the classes
le_transform(x) == (CHOOSE k \in 1..Len(le_classes) : le_classes[k] = x) - 1

\* '_lag' in c
ContainsLag(c) == \E k \in 1..(Len(c) - 3) : SubSeq(c, k, k + 3) = "_lag"

\* the columns never lagged (line 136)
lag_excluded ==
    { "year", "month", "week_of_month", "is_weekend", "is_holiday",
      "weekday_sin", "weekday_cos" }

\* lines 135-136
cols_for_lag(fl, columns) ==
    LET Keep(c) == ~ ContainsLag(c) /\ c \in columns /\ c \notin lag_excluded
    IN  SelectSeq(fl, Keep)

lag1_name(c) == c \o "_lag1"
lag2_name(c) == c \o "_lag2"

\* lines 121-133: the derived columns, one row at a time
WithDerived(r) ==
    LET wd == IF r.wind_direction_mean \in known_labels
              THEN r.wind_direction_mean ELSE le_mode
    IN  [r EXCEPT !.wind_direction_mean = wd]
        @@ [ moon_age_sin    |-> SinMilli(r.moon_age * 10, 2953),
             moon_age_cos    |-> CosMilli(r.moon_age * 10, 2953),
             day_of_year_sin |-> SinMilli(r.day_of_year * 4, 1461),
             day_of_year_cos |-> CosMilli(r.day_of_year * 4, 1461),
             weekday_sin     |-> SinMilli(r.weekday, 7),
             weekday_cos     |-> CosMilli(r.weekday, 7),
             temp_x_wind     |-> r.temperature_mean * r.wind_speed_mean,
             wind_direction_encoded |-> le_transform(wd) ]

RECURSIVE WithLags(_, _, _)
\* lines 137-139: the table with <col>_lag1 and <col>_lag2 added for each col
WithLags(df, cols, k) ==
    IF k > Len(cols) THEN df
    ELSE LET col  == cols[k]
             lag1 == shift(df, col, 1)
             lag2 == shift(df, col, 2)
             next == AsTuple([r \in 1..Len(df) |->
                        df[r] @@ (lag1_name(col) :> lag1[r]) @@ (lag2_name(col) :> lag2[r])])
         IN  WithLags(next, cols, k + 1)

engineer_features(df, fl) ==
    LET base == AsTuple([k \in 1..Len(df) |-> WithDerived(df[k])])
        columns == IF Len(base) = 0 THEN {} ELSE DOMAIN base[1]
    IN  WithLags(base, cols_for_lag(fl, columns), 1)

-----------------------------------------------------------------------------
(* PredictionService.predict_weekly: selection, inference, response *)

\* self.features_list: the ordered input columns of the trained model (a
\* trained artifact): calendar, lunar, weather and derived columns, and lags
\* of some of them
TrainedFeatures ==
    << "year", "month", "week_of_month", "is_weekend", "is_holiday",
       "weekday_sin", "weekday_cos", "moon_age", "moon_age_sin",
       "day_of_year_cos", "temperature_mean", "temperature_std",
       "temperature_mean_10_13", "temperature_mean_1_4", "precipitation_sum",
       "precipitation_sum_22_0", "wind_speed_mean", "wind_speed_std",
       "wind_direction_encoded", "temp_x_wind",
       "moon_age_lag1", "moon_age_lag2", "temperature_mean_lag1",
       "temperature_std_lag2", "temperature_mean_10_13_lag1",
       "temperature_mean_1_4_lag1", "precipitation_sum_lag2",
       "wind_speed_mean_lag1", "wind_direction_encoded_lag1",
       "temp_x_wind_lag2", "day_of_year_cos_lag2" >>

\* mutation: the rows of the first seven dates are selected
select_rows_head(df) == SubSeq(df, 1, 7)

\* engineered_df.iloc[2:9]
select_rows(df) == SubSeq(df, 3, 9)

\* scaler_X.transform, model.predict and scaler_y.inverse_transform: the
\* trained regression as a fixed function of the ordered input vector
ModelPredict(x) == SumSeq([k \in 1..Len(x) |-> k * x[k]]) % 9973

\* predict_df[self.features_list] needs every listed column
HasColumns(df, fl) == \A k \in 1..Len(fl) : \A r \in 1..Len(df) : fl[k] \in DOMAIN df[r]

y_pred(predict_df, fl) ==
    AsTuple([r \in 1..Len(predict_df) |->
        ModelPredict(AsTuple([k \in 1..Len(fl) |-> predict_df[r][fl[k]]]))])

\* daily_df[daily_df['time'] == target_date]: the matching rows (k is the
\* 1-based position of the prediction)
daily_info(ddf, target_date, k) ==
    LET Match(r) == r.time = target_date IN SelectSeq(ddf, Match)

\* lines 185-199 for the k-th prediction (k = i + 1)
PredictionResponse(k, pred_value, predict_df, ddf, t) ==
    LET target_date == t + (k - 1)
        info == daily_info(ddf, target_date, k)[1]
    IN  [ date                          |-> target_date,
          predicted_amount              |-> pred_value,
          moon_age                      |-> predict_df[k].moon_age,
          weather_code                  |-> info.weather_code,
          temperature_max               |-> info.temperature_2m_max,
          temperature_min               |-> info.temperature_2m_min,
          precipitation_probability_max |-> info.precipitation_probability_max,
          dominant_wind_direction       |-> info.wind_direction_10m_dominant ]

-----------------------------------------------------------------------------
(* app/services/data_fetcher.py: the retry loop, written twice in the source *)
(* (get_weather_data and get_moon_age) with the same text                    *)

MAX_RETRIES == 3
RETRY_DELAY == 1

\* how an attempt can fail: httpx.RequestError (timeout, connection), an HTTP
\* error status raised by raise_for_status, a document that fails validation
ErrorKinds == {"transport", "status", "schema"}

\* mutation: every exception is handled by the retrying clause
Retryable_any(e) == TRUE

\* `except httpx.RequestError`: the clause that retries
Retryable(e) == e = "transport"

\* mutation: the last attempt is recognised one iteration too late
IsLastAttempt_late(a) == a = MAX_RETRIES

\* attempt + 1 == self.MAX_RETRIES
IsLastAttempt(a) == a + 1 = MAX_RETRIES

\* delay *= 2
NextDelay(d) == d * 2

\* entering either fetch: delay = self.RETRY_DELAY, first iteration of the loop
BeginFetch(f) ==
    /\ delay' = RETRY_DELAY
    /\ attempt' = 0
    /\ sleeps' = <<>>
    /\ outcome' = "pending"
    /\ attemptLog' = <<>>
    /\ fetchLog' = Append(fetchLog, f)

\* the frame of a fetch that has returned is gone
EndFetch ==
    /\ attempt' = 0
    /\ delay' = RETRY_DELAY
    /\ sleeps' = <<>>
    /\ outcome' = "none"
    /\ attemptLog' = <<>>

\* An attempt raises e.  The retrying clause gives up on the last attempt and
\* otherwise sleeps, doubles the delay and lets the loop go on; a loop that
\* runs out falls to the final `return None`.  Any other exception returns
\* None at once.  The fetch has returned exactly if pc' = retPc.
FailedAttempt(e, retPc) ==
    /\ attemptLog' = Append(attemptLog, e)
    /\ IF Retryable(e)
       THEN IF IsLastAttempt(attempt)
            THEN /\ outcome' = e
                 /\ pc' = retPc
                 /\ fetchesDone' = fetchesDone + 1
                 /\ UNCHANGED <<attempt, delay, sleeps>>
            ELSE /\ sleeps' = Append(sleeps, delay)
                 /\ delay' = NextDelay(delay)
                 /\ attempt' = attempt + 1
                 /\ IF attempt + 1 < MAX_RETRIES
                    THEN UNCHANGED <<outcome, pc, fetchesDone>>
                    ELSE /\ outcome' = "exhausted"
                         /\ pc' = retPc
                         /\ fetchesDone' = fetchesDone + 1
       ELSE /\ outcome' = e
            /\ pc' = retPc
            /\ fetchesDone' = fetchesDone + 1
            /\ UNCHANGED <<attempt, delay, sleeps>>

-----------------------------------------------------------------------------
(* PredictionService.predict_weekly: the window and the two tests on what *)
(* the fetches returned                                                    *)

start_date_fetch(t) == t - 2
end_date_fetch(t)   == t + 7

\* mutation: the last date of the window is left out of the loop
total_days_to_process_short(t) == end_date_fetch(t) - start_date_fetch(t)

total_days_to_process(t) == (end_date_fetch(t) - start_date_fetch(t)) + 1

WeatherFetch(t) == [api |-> "weather", from |-> start_date_fetch(t), to |-> end_date_fetch(t)]
TideFetch(d)    == [api |-> "tide", from |-> d, to |-> d]

\* mutation: the failed weather fetch is not noticed
weather_failed_never(w) == FALSE

\* `if not weather_api_data` (line 147)
weather_failed(w) == w = NoResponse

\* the value of moon_age when get_moon_age returned None (line 162), tenths
DEFAULT_MOON_AGE == 150

\* mutation: the default is not applied
defaulted_moon_age_none(m) == m

\* `if moon_age is None: moon_age = 15.0` (line 162)
defaulted_moon_age(m) == IF m = None THEN DEFAULT_MOON_AGE ELSE m

\* The environment of a request (see MaxMinority): whether the tide fetch
\* of the current date, the i-th, may still succeed, and whether it may fail.
Smaller(a, b) == IF a <= b THEN a ELSE b
MayTideSucceed == Smaller((i - tideFailures) + 1, tideFailures) <= MaxMinority
MayTideFail    == Smaller(i - tideFailures, tideFailures + 1) <= MaxMinority

-----------------------------------------------------------------------------
(* The state machine *)

Init ==
    /\ degree = NaN
    /\ direction = "?"
    /\ features_list = TrainedFeatures
    /\ pc = "idle"
    /\ today = None
    /\ attempt = 0
    /\ delay = RETRY_DELAY
    /\ sleeps = <<>>
    /\ outcome = "none"
    /\ weather_api_data = NoResponse
    /\ moon_age = None
    /\ i = 0
    /\ all_days_features = <<>>
    /\ feature_df = <<>>
    /\ engineered_df = <<>>
    /\ predictions = <<>>
    /\ http_status = 0
    /\ fetchLog = <<>>
    /\ fetchesDone = 0
    /\ builderCalls = <<>>
    /\ tideFailures = 0
    /\ attemptLog = <<>>
    /\ engineerCalls = 0

\* GET /predict/week arrives: get_weekly_prediction calls predict_weekly, which
\* reads the date and awaits get_weather_data (main.py 46-51, lines 143-146)
StartRequest ==
    /\ pc = "idle"
    /\ today' = FirstToday
    /\ BeginFetch(WeatherFetch(FirstToday))
    /\ pc' = "weather"
    /\ UNCHANGED <<dirVars, features_list, weather_api_data, moon_age, i,
                   all_days_features, feature_df, engineered_df, predictions,
                   http_status, fetchesDone, builderCalls, tideFailures,
                   engineerCalls>>

\* get_weather_data, an attempt answers with a valid document (lines 43-45)
WeatherOk ==
    /\ pc = "weather"
    /\ \E resp \in WeatherResponses(start_date_fetch(today), end_date_fetch(today)) :
          weather_api_data' = resp
    /\ attemptLog' = Append(attemptLog, "ok")
    /\ outcome' = "ok"
    /\ pc' = "weather_ret"
    /\ fetchesDone' = fetchesDone + 1
    /\ UNCHANGED <<dirVars, features_list, today, attempt, delay, sleeps, moon_age,
                   i, all_days_features, feature_df, engineered_df, predictions,
                   http_status, fetchLog, builderCalls, tideFailures, engineerCalls>>

\* get_weather_data, an attempt raises (lines 46-55)
WeatherError ==
    /\ pc = "weather"
    /\ \E e \in ErrorKinds : FailedAttempt(e, "weather_ret")
    /\ weather_api_data' = NoResponse
    /\ UNCHANGED <<dirVars, features_list, today, moon_age, i, all_days_features,
                   feature_df, engineered_df, predictions, http_status, fetchLog,
                   builderCalls, tideFailures, engineerCalls>>

\* predict_weekly after get_weather_data returned (lines 147-161): raise, which
\* the handler turns into a 500 (main.py 53-54), or build the frames, enter
\* the loop and await the first get_moon_age
AfterWeather ==
    /\ pc = "weather_ret"
    /\ IF weather_failed(weather_api_data)
       THEN /\ http_status' = 500
            /\ pc' = "responded"
            /\ EndFetch
            /\ UNCHANGED <<fetchLog, i, all_days_features>>
       ELSE /\ i' = 0
            /\ all_days_features' = <<>>
            /\ BeginFetch(TideFetch(start_date_fetch(today) + 0))
            /\ pc' = "moon"
            /\ UNCHANGED http_status
    /\ UNCHANGED <<dirVars, features_list, today, weather_api_data, moon_age,
                   feature_df, engineered_df, predictions, fetchesDone,
                   builderCalls, tideFailures, engineerCalls>>

\* get_moon_age, an attempt answers with a document holding the date (lines 71-76)
MoonOk ==
    /\ pc = "moon"
    /\ MayTideSucceed
    /\ moon_age' = TideAge(start_date_fetch(today) + i)
    /\ attemptLog' = Append(attemptLog, "ok")
    /\ outcome' = "ok"
    /\ pc' = "moon_ret"
    /\ fetchesDone' = fetchesDone + 1
    /\ UNCHANGED <<dirVars, features_list, today, attempt, delay, sleeps,
                   weather_api_data, i, all_days_features, feature_df,
                   engineered_df, predictions, http_status, fetchLog,
                   builderCalls, tideFailures, engineerCalls>>

\* get_moon_age, a valid document without the date key (lines 77-78)
MoonNotFound ==
    /\ pc = "moon"
    /\ MayTideFail
    /\ moon_age' = None
    /\ attemptLog' = Append(attemptLog, "notfound")
    /\ outcome' = "notfound"
    /\ pc' = "moon_ret"
    /\ fetchesDone' = fetchesDone + 1
    /\ tideFailures' = tideFailures + 1
    /\ UNCHANGED <<dirVars, features_list, today, attempt, delay, sleeps,
                   weather_api_data, i, all_days_features, feature_df,
                   engineered_df, predictions, http_status, fetchLog,
                   builderCalls, engineerCalls>>

\* get_moon_age, an attempt raises (lines 79-88)
MoonError ==
    /\ pc = "moon"
    /\ \E e \in ErrorKinds : FailedAttempt(e, "moon_ret")
    /\ moon_age' = None
    /\ IF pc' = "moon_ret"
       THEN MayTideFail /\ tideFailures' = tideFailures + 1
       ELSE UNCHANGED tideFailures
    /\ UNCHANGED <<dirVars, features_list, today, weather_api_data, i,
                   all_days_features, feature_df, engineered_df, predictions,
                   http_status, fetchLog, builderCalls, engineerCalls>>

\* predict_weekly takes the value get_moon_age returned and defaults it
\* (lines 161-162)
AfterMoon ==
    /\ pc = "moon_ret"
    /\ moon_age' = defaulted_moon_age(moon_age)
    /\ EndFetch
    /\ pc' = "build"
    /\ UNCHANGED <<dirVars, features_list, today, weather_api_data, i,
                   all_days_features, feature_df, engineered_df, predictions,
                   http_status, fetchLog, fetchesDone, builderCalls,
                   tideFailures, engineerCalls>>

\* lines 169-200 and main.py 51-54: assemble, fill, engineer, select, predict
\* and answer.  A missing input column (KeyError) or a date without daily
\* summary (IndexError) is an exception, which the handler answers with 500.
Finish(feats) ==
    LET fdf        == bfill(ffill(feats))
        edf        == engineer_features(fdf, features_list)
        predict_df == select_rows(edf)
        ddf        == daily_df(weather_api_data)
        ok         == /\ HasColumns(predict_df, features_list)
                      /\ \A k \in 1..Len(predict_df) :
                            Len(daily_info(ddf, today + (k - 1), k)) > 0
        y          == y_pred(predict_df, features_list)
    IN  /\ feature_df' = fdf
        /\ engineered_df' = edf
        /\ engineerCalls' = engineerCalls + 1
        /\ IF ok
           THEN /\ predictions' = [k \in 1..Len(y) |->
                                      PredictionResponse(k, y[k], predict_df, ddf, today)]
                /\ http_status' = 200
           ELSE /\ predictions' = <<>>
                /\ http_status' = 500
        /\ pc' = "responded"

\* predict_weekly, lines 166-168 and on: build and append the date's record,
\* then either await the next date's get_moon_age or leave the loop and run
\* to the answer
BuildDay ==
    /\ pc = "build"
    /\ LET target_date == start_date_fetch(today) + i
           feats == Append(all_days_features,
                           create_features_for_day(target_date,
                                                   hourly_df(weather_api_data),
                                                   moon_age))
       IN  /\ all_days_features' = feats
           /\ builderCalls' = Append(builderCalls, target_date)
           /\ IF i + 1 < total_days_to_process(today)
              THEN /\ i' = i + 1
                   /\ BeginFetch(TideFetch(start_date_fetch(today) + (i + 1)))
                   /\ pc' = "moon"
                   /\ UNCHANGED <<feature_df, engineered_df, predictions,
                                  http_status, engineerCalls>>
              ELSE /\ Finish(feats)
                   /\ UNCHANGED <<i, fetchVars, fetchLog, attemptLog>>
    /\ UNCHANGED <<dirVars, features_list, today, weather_api_data, moon_age,
                   fetchesDone, tideFailures>>

\* the answer was sent; the service waits for the next request, whose
\* coroutine starts from fresh locals
NextRequest ==
    /\ pc = "responded"
    /\ pc' = "idle"
    /\ today' = None
    /\ EndFetch
    /\ weather_api_data' = NoResponse
    /\ moon_age' = None
    /\ i' = 0
    /\ all_days_features' = <<>>
    /\ feature_df' = <<>>
    /\ engineered_df' = <<>>
    /\ predictions' = <<>>
    /\ http_status' = 0
    /\ fetchLog' = <<>>
    /\ fetchesDone' = 0
    /\ builderCalls' = <<>>
    /\ tideFailures' = 0
    /\ engineerCalls' = 0
    /\ UNCHANGED <<dirVars, features_list>>

Next ==
    \/ StartRequest
    \/ WeatherOk
    \/ WeatherError
    \/ AfterWeather
    \/ MoonOk
    \/ MoonNotFound
    \/ MoonError
    \/ AfterMoon
    \/ BuildDay
    \/ NextRequest

Spec == Init /\ [][Next]_vars

-----------------------------------------------------------------------------
(* degree_to_direction on its own: the argument is drawn from the          *)
(* docstring's range in steps of a hundredth of a degree, or is NaN         *)

InitDir ==
    /\ degree \in (0..(MaxDegree * 100)) \cup {NaN}
    /\ direction = "?"
    /\ features_list = TrainedFeatures
    /\ pc = "idle"
    /\ today = None
    /\ attempt = 0
    /\ delay = RETRY_DELAY
    /\ sleeps = <<>>
    /\ outcome = "none"
    /\ weather_api_data = NoResponse
    /\ moon_age = None
    /\ i = 0
    /\ all_days_features = <<>>
    /\ feature_df = <<>>
    /\ engineered_df = <<>>
    /\ predictions = <<>>
    /\ http_status = 0
    /\ fetchLog = <<>>
    /\ fetchesDone = 0
    /\ builderCalls = <<>>
    /\ tideFailures = 0
    /\ attemptLog = <<>>
    /\ engineerCalls = 0

Convert ==
    /\ direction = "?"
    /\ direction' = degree_to_direction(degree)
    /\ UNCHANGED <<degree, pipeVars>>

NextDir == Convert

SpecDir == InitDir /\ [][NextDir]_vars

-----------------------------------------------------------------------------
(* Properties.  Observations shared by several of them: *)

\* a fetch has just returned to predict_weekly
Returned == pc \in {"weather_ret", "moon_ret"}

\* ... with a result, not with None
ResultPresent ==
    \/ (pc = "weather_ret" /\ weather_api_data # NoResponse)
    \/ (pc = "moon_ret" /\ moon_age # None)

\* the weather fetch of the running request has returned None
WeatherAbsent == fetchesDone >= 1 /\ weather_api_data = NoResponse

\* the fetches of a complete run, in order
ExpectedFetches(t) ==
    <<WeatherFetch(t)>> \o [k \in 1..10 |-> TideFetch((t - 2) + (k - 1))]

IsPrefix(s, t) == Len(s) <= Len(t) /\ \A k \in 1..Len(s) : s[k] = t[k]

\* C1: a fetch whose first two attempts fail with a transport error and whose
\* third succeeds returns the result after exactly the delays 1, 2; a fetch
\* whose three attempts all fail with a transport error returns None after
\* exactly three attempts and the delays 1, 2 (no delay after the third
\* failure, no fourth attempt); every fetch starts with the delay 1.
C1_RetryBackoff ==
    /\ Len(attemptLog) <= 3
    /\ (attemptLog = <<"transport", "transport", "ok">> =>
            /\ Returned /\ ResultPresent
            /\ sleeps = <<1, 2>>
            /\ (pc = "moon_ret" => moon_age = TideAge(start_date_fetch(today) + i)))
    /\ (attemptLog = <<"transport", "transport", "transport">> =>
            /\ Returned /\ ~ ResultPresent
            /\ sleeps = <<1, 2>>)
    /\ (pc \in {"weather", "moon"} /\ attemptLog = <<>> =>
            delay = 1 /\ sleeps = <<>>)

\* C1: the third attempt of the tide fetch of a later date succeeds
C1_Witness ==
    /\ pc = "moon_ret"
    /\ i >= 1
    /\ attemptLog = <<"transport", "transport", "ok">>
    /\ sleeps = <<1, 2>>
    /\ moon_age = TideAge(start_date_fetch(today) + i)

\* C2: when the weather fetch returns None, whatever made it fail, no tide
\* fetch is issued, no record is built, no prediction is produced and the
\* request is answered with status 500.
C2_WeatherFailureAborts ==
    /\ (pc = "weather_ret" /\ outcome # "ok" => weather_api_data = NoResponse)
    /\ (WeatherAbsent =>
            /\ pc \in {"weather_ret", "responded"}
            /\ fetchLog = <<WeatherFetch(today)>>
            /\ all_days_features = <<>>
            /\ builderCalls = <<>>
            /\ predictions = <<>>
            /\ (pc = "responded" => http_status = 500))

\* C2: a request answered 500 after the weather fetch failed
C2_Witness ==
    /\ pc = "responded"
    /\ WeatherAbsent
    /\ http_status = 500
    /\ fetchLog = <<WeatherFetch(today)>>

\* the records built with the default lunar age
DefaultRows == { k \in 1..Len(all_days_features) :
                    all_days_features[k].moon_age = DEFAULT_MOON_AGE }

\* C3: a tide fetch that fails in any way returns None, the date's lunar age
\* becomes the default 15.0 and its record is still built: every record
\* carries a number as lunar age, and a run whose weather fetch succeeded
\* builds all 10 records, one with the default for each failed tide fetch.
C3_TideFailureAbsorbed ==
    /\ (pc = "moon_ret" /\ outcome # "ok" => moon_age = None)
    /\ (pc = "build" => moon_age \notin {None, NaN} /\ http_status = 0)
    /\ \A k \in 1..Len(all_days_features) :
          all_days_features[k].moon_age \notin {None, NaN}
    /\ (pc = "responded" /\ ~ WeatherAbsent =>
            /\ Len(all_days_features) = 10
            /\ \A k \in 1..10 : all_days_features[k].date = (today - 2) + (k - 1)
            /\ Cardinality(DefaultRows) = tideFailures)

\* C3: every tide fetch of the request failed and the request was answered 200
C3_Witness ==
    /\ pc = "responded"
    /\ tideFailures = 10
    /\ http_status = 200
    /\ Len(predictions) = 7
    /\ \A k \in 1..10 : all_days_features[k].moon_age = 150

\* C5: within a fetch only a transport error is followed by another attempt;
\* an attempt that ends with an HTTP error status or a schema error ends the
\* fetch at once with None, without a delay, whatever its number.
C5_OnlyTransportRetried ==
    /\ \A k \in 1..(Len(attemptLog) - 1) : attemptLog[k] = "transport"
    /\ (Len(attemptLog) >= 1 /\ attemptLog[Len(attemptLog)] \in {"status", "schema"} =>
            /\ Returned /\ ~ ResultPresent
            /\ outcome = attemptLog[Len(attemptLog)]
            /\ Len(sleeps) = Len(attemptLog) - 1)

\* C5: a schema error on the second attempt of the weather fetch
C5_Witness ==
    /\ pc = "weather_ret"
    /\ attemptLog = <<"transport", "schema">>
    /\ sleeps = <<1>>
    /\ weather_api_data = NoResponse

\* C6: the fetches are one weather fetch, then one tide fetch per date in
\* ascending order, each returning before the next starts; the builder runs
\* once per date, in order; the table is assembled and engineered once, and
\* only after all 11 fetches have returned and all 10 records were built.
C6_FetchOrder ==
    /\ (today # None => IsPrefix(fetchLog, ExpectedFetches(today)))
    /\ Len(fetchLog) = fetchesDone + (IF pc \in {"weather", "moon"} THEN 1 ELSE 0)
    /\ Len(builderCalls) <= 10
    /\ \A k \in 1..Len(builderCalls) : builderCalls[k] = (today - 2) + (k - 1)
    /\ Len(builderCalls) = Len(all_days_features)
    /\ engineerCalls <= 1
    /\ (engineerCalls = 1 \/ feature_df # <<>> \/ engineered_df # <<>> =>
            /\ fetchesDone = 11
            /\ fetchLog = ExpectedFetches(today)
            /\ Len(builderCalls) = 10)
    /\ (http_status = 200 => engineerCalls = 1)

\* C6: a successful run
C6_Witness ==
    /\ http_status = 200
    /\ fetchesDone = 11
    /\ engineerCalls = 1
    /\ Len(feature_df) = 10


\* the sector of a degree d (hundredths): the k in 0..16 whose centre 22.5k is
\* nearest to d, the upper neighbour winning a tie; sector 16 is north again
SectorOf(d) ==
    CHOOSE k \in 0..16 : 2250 * k - 1125 <= d /\ d < 2250 * k + 1125

\* C7: for every degree in 0..360 the result is the label at index
\* trunc(d/22.5 + 0.5) mod 16, one of the 16 labels: the label of the sector
\* whose centre is nearest; 0 and 11.24 give N, 11.25 gives NNE, 360 gives N
\* again; NaN gives the empty label.
C7_DegreeToDirection ==
    direction # "?" =>
        /\ (degree = NaN => direction = "")
        /\ (degree # NaN =>
                /\ \E k \in 1..16 : direction = DIRECTIONS[k]
                /\ direction = DIRECTIONS[(SectorOf(degree) % 16) + 1])
        /\ (degree \in {0, 1124, 36000} => direction = "N")
        /\ (degree = 1125 => direction = "NNE")
        /\ (degree = 1124 + 2250 => direction = "NNE")
        /\ (degree = 36000 - 1125 => direction = "N")
        /\ (degree = 36000 - 1126 => direction = "NNW")

\* C7: 11.25 degrees, the first rounding boundary, has been converted
C7_Witness == degree = 1125 /\ direction = "NNE"

\* the daily summary of the answer covers every date of the fetch window
DailyCovers ==
    \A d \in start_date_fetch(today)..end_date_fetch(today) :
        \E r \in 1..Len(DailyArrays(weather_api_data)) :
            DailyArrays(weather_api_data)[r].time = d

\* the model's input vector of a row of the engineered table
InputVector(row) == [k \in 1..Len(features_list) |-> row[features_list[k]]]

\* C4: when the weather fetch succeeded and the daily summary covers every
\* date of the window, the answer is 200 with exactly 7 records dated today,
\* today+1, ..., today+6 in this order; record k (from 0) takes its
\* prediction and lunar age from row k+2 of the table, which is the row built
\* for today+k, and its five weather fields from the daily summary dated
\* today+k.
C4_SevenRecordsByDate ==
    (pc = "responded" /\ ~ WeatherAbsent /\ DailyCovers) =>
        /\ http_status = 200
        /\ Len(predictions) = 7
        /\ \A k \in 0..6 :
            LET rec == predictions[k + 1] IN
            /\ rec.date = today + k
            /\ all_days_features[k + 3].date = today + k
            /\ feature_df[k + 3].date = today + k
            /\ engineered_df[k + 3].date = today + k
            /\ rec.moon_age = all_days_features[k + 3].moon_age
            /\ rec.predicted_amount = ModelPredict(InputVector(engineered_df[k + 3]))
            /\ \E r \in 1..Len(DailyArrays(weather_api_data)) :
                  DailyArrays(weather_api_data)[r].time = today + k
            /\ \A r \in 1..Len(DailyArrays(weather_api_data)) :
                  LET day == DailyArrays(weather_api_data)[r] IN
                  day.time = today + k =>
                      /\ rec.weather_code = day.weather_code
                      /\ rec.temperature_max = day.temperature_2m_max
                      /\ rec.temperature_min = day.temperature_2m_min
                      /\ rec.precipitation_probability_max =
                             day.precipitation_probability_max
                      /\ rec.dominant_wind_direction =
                             day.wind_direction_10m_dominant

\* C4: a request answered with 7 records, the lunar ages of which were all
\* reported by the tide API
C4_Witness ==
    /\ pc = "responded"
    /\ http_status = 200
    /\ DailyCovers
    /\ tideFailures = 0
    /\ Len(predictions) = 7
    /\ predictions[1].date = today
    /\ predictions[7].date = today + 6
    /\ predictions[7].moon_age = TideAge(today + 6)

\* the columns the claim calls lagged base columns: listed in the model's
\* feature list, no "_lag" in the name, present in the table, not excluded
LaggedBase ==
    { c \in { features_list[k] : k \in 1..Len(features_list) } :
        /\ ~ ContainsLag(c)
        /\ c \in DOMAIN feature_df[1] \cup
                 { "moon_age_sin", "moon_age_cos", "day_of_year_sin",
                   "day_of_year_cos", "weekday_sin", "weekday_cos",
                   "temp_x_wind", "wind_direction_encoded" }
        /\ c \notin { "year", "month", "week_of_month", "is_weekend",
                      "is_holiday", "weekday_sin", "weekday_cos" } }

\* C9: in the engineered 10-row table, for every lagged base column c,
\* c_lag1 at row i is c at row i-1 (i >= 1) and null at row 0, c_lag2 at
\* row i is c at row i-2 (i >= 2) and null at rows 0 and 1; the rows 2..8
\* selected for prediction hold no null lag; no excluded column has a lag
\* column.  (Rows are numbered from 1 here.)
C9_LagColumns ==
    engineered_df # <<>> =>
        /\ Len(engineered_df) = 10
        /\ \A c \in LaggedBase :
            /\ \A k \in 1..10 :
                  /\ lag1_name(c) \in DOMAIN engineered_df[k]
                  /\ lag2_name(c) \in DOMAIN engineered_df[k]
            /\ engineered_df[1][lag1_name(c)] = NaN
            /\ engineered_df[1][lag2_name(c)] = NaN
            /\ engineered_df[2][lag2_name(c)] = NaN
            /\ \A k \in 2..10 :
                  engineered_df[k][lag1_name(c)] = engineered_df[k - 1][c]
            /\ \A k \in 3..10 :
                  engineered_df[k][lag2_name(c)] = engineered_df[k - 2][c]
            /\ \A k \in 3..9 :
                  /\ engineered_df[k][lag1_name(c)] # NaN
                  /\ engineered_df[k][lag2_name(c)] # NaN
        /\ \A c \in { "year", "month", "week_of_month", "is_weekend",
                      "is_holiday", "weekday_sin", "weekday_cos" } :
            \A k \in 1..10 :
                /\ (c \o "_lag1") \notin DOMAIN engineered_df[k]
                /\ (c \o "_lag2") \notin DOMAIN engineered_df[k]

\* C9: an engineered table in which the lunar age differs from row to row and
\* the lags of the first selected row are the values of the two rows before
C9_Witness ==
    /\ engineered_df # <<>>
    /\ "moon_age" \in LaggedBase
    /\ "temp_x_wind" \in LaggedBase
    /\ engineered_df[2]["moon_age"] # engineered_df[1]["moon_age"]
    /\ engineered_df[3]["moon_age"] # engineered_df[2]["moon_age"]
    /\ engineered_df[3]["moon_age_lag1"] = engineered_df[2]["moon_age"]
    /\ engineered_df[3]["moon_age_lag2"] = engineered_df[1]["moon_age"]
    /\ engineered_df[1]["moon_age_lag1"] = NaN

\* a record has just been built: the loop awaits the next date's tide fetch,
\* or the last record was built and the request was answered
JustBuilt ==
    /\ all_days_features # <<>>
    /\ \/ pc = "responded"
       \/ (pc = "moon" /\ attemptLog = <<>>)

LastBuilt == all_days_features[Len(all_days_features)]

\* the timestamps of the records of a window
Times(w) == { w[k].time : k \in 1..Len(w) }

\* C10: for the date D of the record just built, the five sub-windows (10-13,
\* 14-17, 18-21 on D, the wrap window, 01-04 on D+1) are pairwise disjoint and
\* together hold exactly the records of the main window [D 10:00, D+1 04:00];
\* the wrap window holds exactly the table's records at D 22:00, D 23:00 and
\* D+1 00:00; precipitation_sum is the sum of the five sub-window sums.
C10_SubWindowsPartition ==
    JustBuilt =>
        LET D    == LastBuilt.date
            df   == hourly_df(weather_api_data)
            main == temp_precip_weather(df, D)
            w    == << tp_10_13(df, D), tp_14_17(df, D), tp_18_21(df, D),
                       tp_22_00(df, D), tp_01_04(df, D) >>
            wrapHours == { TimeOf(D, 22), TimeOf(D, 23), TimeOf(D + 1, 0) }
        IN  /\ \A a \in 1..5 : \A b \in 1..5 :
                  a # b => Times(w[a]) \cap Times(w[b]) = {}
            /\ UNION { Times(w[a]) : a \in 1..5 } = Times(main)
            /\ Len(w[1]) + Len(w[2]) + Len(w[3]) + Len(w[4]) + Len(w[5]) = Len(main)
            /\ Times(w[4]) = Times(df) \cap wrapHours
            /\ Len(w[4]) = Cardinality(Times(w[4]))
            /\ (wrapHours \subseteq Times(df) => Len(w[4]) = 3)
            /\ LastBuilt.precipitation_sum_10_13 = SumSeq(Column(w[1], "precipitation"))
            /\ LastBuilt.precipitation_sum_14_17 = SumSeq(Column(w[2], "precipitation"))
            /\ LastBuilt.precipitation_sum_18_21 = SumSeq(Column(w[3], "precipitation"))
            /\ LastBuilt.precipitation_sum_22_0 = SumSeq(Column(w[4], "precipitation"))
            /\ LastBuilt.precipitation_sum_1_4 = SumSeq(Column(w[5], "precipitation"))
            /\ LastBuilt.precipitation_sum =
                     LastBuilt.precipitation_sum_10_13
                   + LastBuilt.precipitation_sum_14_17
                   + LastBuilt.precipitation_sum_18_21
                   + LastBuilt.precipitation_sum_22_0
                   + LastBuilt.precipitation_sum_1_4

\* C10: a record built from a table that has all three hours of the wrap
\* window, with rain in the wrap window and outside it
C10_Witness ==
    /\ JustBuilt
    /\ Len(tp_22_00(hourly_df(weather_api_data), LastBuilt.date)) = 3
    /\ Len(temp_precip_weather(hourly_df(weather_api_data), LastBuilt.date)) = 19
    /\ LastBuilt.precipitation_sum_22_0 > 0
    /\ LastBuilt.precipitation_sum > LastBuilt.precipitation_sum_22_0

\* the records of the request as the aggregates alone give them, a null
\* aggregate being NaN
RawTable ==
    AsTuple([k \in 1..Len(all_days_features) |->
        RawFeatures(all_days_features[k].date, hourly_df(weather_api_data),
                    all_days_features[k].moon_age)])

\* C8: a null aggregate of a date's record stays null until the 10-row table
\* is assembled and is resolved there by a forward fill, then a backward
\* fill, and only a value still null after both becomes 0: the filled table
\* is the raw table filled forward, then backward, then with 0; so a column
\* that is null in the first row only gets the second row's value there.
C8_NullsResolvedAtTable ==
    feature_df # <<>> =>
        LET resolved == bfill(ffill(RawTable))
        IN  /\ feature_df = AsTuple([k \in 1..Len(resolved) |-> fillna0(resolved[k])])
            /\ \A c \in DOMAIN RawTable[1] :
                  (/\ RawTable[1][c] = NaN
                   /\ \A k \in 2..Len(RawTable) : RawTable[k][c] # NaN)
                  => feature_df[1][c] = RawTable[2][c]

=============================================================================
